---- MODULE Spec2Model ----
(***************************************************************************)
(* Model of main.go: the goroutine emit cycles through three words on the  *)
(* unbuffered wordChannel until it receives a value on the unbuffered      *)
(* doneChannel; main receives 101 words, prints them, sends the stop       *)
(* signal and returns, which ends the process.                             *)
(*                                                                         *)
(* A channel is a record [buf, closed]; its capacity is the argument of    *)
(* make.  A send completes when the buffer has room or, on a full (or      *)
(* unbuffered) channel, when the receiver is parked at its receive; a      *)
(* receive completes when the buffer is non-empty, the channel is closed,  *)
(* or the sender is parked at its send.  A select case is an action that   *)
(* is enabled exactly when its channel operation can complete.             *)
(***************************************************************************)
EXTENDS Integers, Sequences, FiniteSets, TLC

VARIABLES mainPc, emitPc, mainI, i, offered, word, output,
          wordChannel, doneChannel, ops, doneGot, panic

\* the timer of the notes' timer example (notes.md:937-963), which otherwise
\* runs on the variables above
VARIABLES tLeft, tC

\* the notes' buffered-channel semaphore example (notes.md:1176-1199)
VARIABLES semaMainPc, semaI, sema, workerAt, running

\* the notes' closing-channels example (notes.md:1073-1106)
VARIABLES prMainPc, prI, goCh, printerPc, printed

\* the notes' id-generator example (notes.md:873-889)
VARIABLES idMainPc, idPc, id, idChan, idGot

timerVars == <<tLeft, tC>>

semaVars == <<semaMainPc, semaI, sema, workerAt, running>>

printerVars == <<prMainPc, prI, goCh, printerPc, printed>>

idVars == <<idMainPc, idPc, id, idChan, idGot>>

notesVars == <<timerVars, semaVars, printerVars, idVars>>

vars == <<mainPc, emitPc, mainI, i, offered, word, output,
          wordChannel, doneChannel, ops, doneGot, panic, notesVars>>

\* main.go:7
words == <<"feed", "the", "monkey">>

\* main.go:27: the loop runs for i = 0 .. 100
LastIndex == 100

NumReceives == LastIndex + 1

\* mutant: wordChannel made with a buffer, make(chan string, 1)
WordCap_Buffered == Len(<<"slot">>)

\* main.go:22: make(chan string) has no buffer
WordCap == 0

\* mutant: doneChannel made with a buffer, make(chan bool, 1)
DoneCap_Buffered == Len(<<"slot">>)

\* main.go:23: make(chan bool) has no buffer
DoneCap == 0

Routines == {"emit", "main"}

Chans == {"wordChannel", "doneChannel"}

OpKinds == {"send", "recv", "close"}

\* history: number of completed operations per channel, kind and routine
OpKey == Chans \X OpKinds \X Routines

Bump(o, k) == [o EXCEPT ![k] = @ + 1]

NewChan == [buf |-> <<>>, closed |-> FALSE]

\* notes.md:940: no timer until emit makes one
TimerInit ==
    /\ tLeft = 0
    /\ tC = NewChan

\* notes.md:1178-1182: the states of a worker, from `<-sema` to its return
WorkerPcs == {"recv", "add", "sleep", "sub", "send", "done"}

\* notes.md:1189-1190: sema is made, no worker is started, running is 0
SemaInit ==
    /\ semaMainPc = "spawn"
    /\ semaI = 0
    /\ sema = NewChan
    /\ workerAt = [pc \in WorkerPcs |-> 0]
    /\ running = 0

\* notes.md:1100: ten printers, i = 0 .. 9
NumPrinters == 10

Printers == 0 .. (NumPrinters - 1)

\* notes.md:1098-1099: goCh is made, no printer is started
PrinterInit ==
    /\ prMainPc = "spawn"
    /\ prI = 0
    /\ goCh = NewChan
    /\ printerPc = [p \in Printers |-> "unborn"]
    /\ printed = {}

\* notes.md:880-881: idChan is made, getID is not started
IdInit ==
    /\ idMainPc = "go"
    /\ idPc = "unborn"
    /\ id = 0
    /\ idChan = NewChan
    /\ idGot = <<>>

\* the process is alive: main has not returned and no goroutine has panicked
Running == mainPc # "exited" /\ panic = "none"

Init ==
    /\ mainPc = "go"
    /\ emitPc = "unborn"
    /\ mainI = 0
    /\ i = 0
    /\ offered = ""
    /\ word = ""
    /\ output = <<>>
    /\ wordChannel = NewChan
    /\ doneChannel = NewChan
    /\ ops = [k \in OpKey |-> 0]
    /\ doneGot = <<>>
    /\ panic = "none"
    /\ TimerInit
    /\ SemaInit
    /\ PrinterInit
    /\ IdInit

\* history shorthands
Done(ch, kind, who) == ops[<<ch, kind, who>>]

Sends(ch) == Done(ch, "send", "emit") + Done(ch, "send", "main")

Recvs(ch) == Done(ch, "recv", "emit") + Done(ch, "recv", "main")

Closes(ch) == Done(ch, "close", "emit") + Done(ch, "close", "main")

(***************************************************************************)
(* The two rendezvous of the program.  On a channel whose buffer cannot    *)
(* take the value, the send of one routine and the receive of the other    *)
(* complete in one step, and the value goes straight to the receiver.      *)
(***************************************************************************)

\* main.go:10 meets main.go:28
WordRendezvous ==
    /\ emitPc = "select"
    /\ mainPc = "recv"
    /\ word' = offered
    /\ emitPc' = "inc"
    /\ mainPc' = "print"
    /\ ops' = Bump(Bump(ops, <<"wordChannel", "send", "emit">>),
                   <<"wordChannel", "recv", "main">>)
    /\ UNCHANGED <<mainI, i, offered, output, wordChannel, doneChannel,
                   doneGot, panic>>

\* main.go:30 meets main.go:15
DoneRendezvous ==
    /\ emitPc = "select"
    /\ mainPc = "send"
    /\ doneGot' = Append(doneGot, [val |-> TRUE, ok |-> TRUE])
    /\ emitPc' = "close"
    /\ mainPc' = "return"
    /\ ops' = Bump(Bump(ops, <<"doneChannel", "send", "main">>),
                   <<"doneChannel", "recv", "emit">>)
    /\ UNCHANGED <<mainI, i, offered, word, output, wordChannel, doneChannel,
                   panic>>

(***************************************************************************)
(* emit                                                                    *)
(***************************************************************************)

\* main.go:6-7: i := 0; words := ...
EmitStart ==
    /\ Running
    /\ UNCHANGED notesVars
    /\ emitPc = "start"
    /\ i' = 0
    /\ emitPc' = "for"
    /\ UNCHANGED <<mainPc, mainI, offered, word, output, wordChannel,
                   doneChannel, ops, doneGot, panic>>

\* main.go:8-10: entering the select evaluates the send operand words[i]
EmitEval ==
    /\ Running
    /\ UNCHANGED notesVars
    /\ emitPc = "for"
    /\ IF i \in 0 .. (Len(words) - 1)
         THEN /\ offered' = words[i + 1]
              /\ emitPc' = "select"
              /\ panic' = panic
         ELSE /\ panic' = "index out of range"
              /\ UNCHANGED <<offered, emitPc>>
    /\ UNCHANGED <<mainPc, mainI, i, word, output, wordChannel, doneChannel,
                   ops, doneGot>>

\* main.go:10: case wordChannel <- words[i]
EmitSendWord ==
    /\ Running
    /\ UNCHANGED notesVars
    /\ emitPc = "select"
    /\ IF wordChannel.closed
         THEN /\ panic' = "send on closed channel"
              /\ UNCHANGED <<mainPc, emitPc, mainI, i, offered, word, output,
                             wordChannel, doneChannel, ops, doneGot>>
         ELSE IF Len(wordChannel.buf) < WordCap
           THEN /\ wordChannel' = [wordChannel EXCEPT !.buf = Append(@, offered)]
                /\ emitPc' = "inc"
                /\ ops' = Bump(ops, <<"wordChannel", "send", "emit">>)
                /\ UNCHANGED <<mainPc, mainI, i, offered, word, output,
                               doneChannel, doneGot, panic>>
           ELSE /\ wordChannel.buf = <<>>
                /\ WordRendezvous

\* main.go:15: case <-doneChannel
EmitRecvDone ==
    /\ Running
    /\ UNCHANGED notesVars
    /\ emitPc = "select"
    /\ IF doneChannel.buf # <<>>
         THEN /\ doneGot' = Append(doneGot, [val |-> Head(doneChannel.buf), ok |-> TRUE])
              /\ doneChannel' = [doneChannel EXCEPT !.buf = Tail(@)]
              /\ emitPc' = "close"
              /\ ops' = Bump(ops, <<"doneChannel", "recv", "emit">>)
              /\ UNCHANGED <<mainPc, mainI, i, offered, word, output,
                             wordChannel, panic>>
         ELSE IF doneChannel.closed
           THEN /\ doneGot' = Append(doneGot, [val |-> FALSE, ok |-> FALSE])
                /\ emitPc' = "close"
                /\ ops' = Bump(ops, <<"doneChannel", "recv", "emit">>)
                /\ UNCHANGED <<mainPc, mainI, i, offered, word, output,
                               wordChannel, doneChannel, panic>>
           ELSE DoneRendezvous

\* mutant: emit returns after its first completed send
EmitInc_Return ==
    /\ mainPc # "exited" /\ panic = "none"
    /\ UNCHANGED notesVars
    /\ emitPc = "inc"
    /\ emitPc' = "done"
    /\ UNCHANGED <<mainPc, mainI, i, offered, word, output, wordChannel,
                   doneChannel, ops, doneGot, panic>>

\* mutant: i += 2
EmitInc_Skip ==
    /\ mainPc # "exited" /\ panic = "none"
    /\ UNCHANGED notesVars
    /\ emitPc = "inc"
    /\ i' = i + 2
    /\ emitPc' = "wrap"
    /\ UNCHANGED <<mainPc, mainI, offered, word, output, wordChannel,
                   doneChannel, ops, doneGot, panic>>

\* main.go:11: i++
EmitInc ==
    /\ Running
    /\ UNCHANGED notesVars
    /\ emitPc = "inc"
    /\ i' = i + 1
    /\ emitPc' = "wrap"
    /\ UNCHANGED <<mainPc, mainI, offered, word, output, wordChannel,
                   doneChannel, ops, doneGot, panic>>

\* mutant: if i == len(words)-1 { i = 0 }
EmitWrap_Off ==
    /\ mainPc # "exited" /\ panic = "none"
    /\ UNCHANGED notesVars
    /\ emitPc = "wrap"
    /\ i' = IF i = Len(<<"feed", "the", "monkey">>) - 1 THEN 0 ELSE i
    /\ emitPc' = "for"
    /\ UNCHANGED <<mainPc, mainI, offered, word, output, wordChannel,
                   doneChannel, ops, doneGot, panic>>

\* mutant: if i > len(words) { i = 0 }
EmitWrap_NoWrap ==
    /\ mainPc # "exited" /\ panic = "none"
    /\ UNCHANGED notesVars
    /\ emitPc = "wrap"
    /\ i' = IF i > Len(<<"feed", "the", "monkey">>) THEN 0 ELSE i
    /\ emitPc' = "for"
    /\ UNCHANGED <<mainPc, mainI, offered, word, output, wordChannel,
                   doneChannel, ops, doneGot, panic>>

\* main.go:12-14: if i == len(words) { i = 0 }
EmitWrap ==
    /\ Running
    /\ UNCHANGED notesVars
    /\ emitPc = "wrap"
    /\ i' = IF i = Len(words) THEN 0 ELSE i
    /\ emitPc' = "for"
    /\ UNCHANGED <<mainPc, mainI, offered, word, output, wordChannel,
                   doneChannel, ops, doneGot, panic>>

\* mutant: doneChannel <- true in place of close(doneChannel), as in the notes
EmitClose_Send ==
    /\ mainPc # "exited" /\ panic = "none"
    /\ UNCHANGED notesVars
    /\ emitPc = "close"
    /\ ~doneChannel.closed
    /\ Len(doneChannel.buf) < DoneCap
    /\ doneChannel' = [doneChannel EXCEPT !.buf = Append(@, TRUE)]
    /\ ops' = [ops EXCEPT ![<<"doneChannel", "send", "emit">>] = @ + 1]
    /\ emitPc' = "return"
    /\ UNCHANGED <<mainPc, mainI, i, offered, word, output, wordChannel,
                   doneGot, panic>>

\* mutant: the stop branch also resets the index, i = 0
EmitClose_ResetIndex ==
    /\ mainPc # "exited" /\ panic = "none"
    /\ UNCHANGED notesVars
    /\ emitPc = "close"
    /\ ~doneChannel.closed
    /\ doneChannel' = [doneChannel EXCEPT !.closed = TRUE]
    /\ ops' = [ops EXCEPT ![<<"doneChannel", "close", "emit">>] = @ + 1]
    /\ i' = 0
    /\ emitPc' = "return"
    /\ UNCHANGED <<mainPc, mainI, offered, word, output, wordChannel, doneGot,
                   panic>>

\* main.go:16: close(doneChannel)
EmitClose ==
    /\ Running
    /\ UNCHANGED notesVars
    /\ emitPc = "close"
    /\ IF doneChannel.closed
         THEN /\ panic' = "close of closed channel"
              /\ UNCHANGED <<emitPc, doneChannel, ops>>
         ELSE /\ doneChannel' = [doneChannel EXCEPT !.closed = TRUE]
              /\ ops' = Bump(ops, <<"doneChannel", "close", "emit">>)
              /\ emitPc' = "return"
              /\ panic' = panic
    /\ UNCHANGED <<mainPc, mainI, i, offered, word, output, wordChannel,
                   doneGot>>

\* mutant: the return is missing and the loop goes on
EmitReturn_Loop ==
    /\ mainPc # "exited" /\ panic = "none"
    /\ UNCHANGED notesVars
    /\ emitPc = "return"
    /\ emitPc' = "for"
    /\ UNCHANGED <<mainPc, mainI, i, offered, word, output, wordChannel,
                   doneChannel, ops, doneGot, panic>>

\* main.go:17: return
EmitReturn ==
    /\ Running
    /\ UNCHANGED notesVars
    /\ emitPc = "return"
    /\ emitPc' = "done"
    /\ UNCHANGED <<mainPc, mainI, i, offered, word, output, wordChannel,
                   doneChannel, ops, doneGot, panic>>

(***************************************************************************)
(* main                                                                    *)
(***************************************************************************)

\* main.go:25: go emit(wordChannel, doneChannel)
MainGo ==
    /\ Running
    /\ UNCHANGED notesVars
    /\ mainPc = "go"
    /\ emitPc' = "start"
    /\ mainI' = 0
    /\ mainPc' = "for"
    /\ UNCHANGED <<i, offered, word, output, wordChannel, doneChannel, ops,
                   doneGot, panic>>

\* mutant: loop condition i < 100
MainFor_OffByOne ==
    /\ mainPc # "exited" /\ panic = "none"
    /\ UNCHANGED notesVars
    /\ mainPc = "for"
    /\ mainPc' = IF mainI < 100 THEN "recv" ELSE "send"
    /\ UNCHANGED <<emitPc, mainI, i, offered, word, output, wordChannel,
                   doneChannel, ops, doneGot, panic>>

\* main.go:27: loop condition i <= 100
MainFor ==
    /\ Running
    /\ UNCHANGED notesVars
    /\ mainPc = "for"
    /\ mainPc' = IF mainI <= LastIndex THEN "recv" ELSE "send"
    /\ UNCHANGED <<emitPc, mainI, i, offered, word, output, wordChannel,
                   doneChannel, ops, doneGot, panic>>

\* main.go:28: <-wordChannel
MainRecvWord ==
    /\ Running
    /\ UNCHANGED notesVars
    /\ mainPc = "recv"
    /\ IF wordChannel.buf # <<>>
         THEN /\ word' = Head(wordChannel.buf)
              /\ wordChannel' = [wordChannel EXCEPT !.buf = Tail(@)]
              /\ mainPc' = "print"
              /\ ops' = Bump(ops, <<"wordChannel", "recv", "main">>)
              /\ UNCHANGED <<emitPc, mainI, i, offered, output, doneChannel,
                             doneGot, panic>>
         ELSE IF wordChannel.closed
           THEN /\ word' = ""
                /\ mainPc' = "print"
                /\ ops' = Bump(ops, <<"wordChannel", "recv", "main">>)
                /\ UNCHANGED <<emitPc, mainI, i, offered, output, wordChannel,
                               doneChannel, doneGot, panic>>
           ELSE /\ Len(wordChannel.buf) >= WordCap
                /\ WordRendezvous

\* main.go:28: fmt.Println(...)
MainPrint ==
    /\ Running
    /\ UNCHANGED notesVars
    /\ mainPc = "print"
    /\ output' = Append(output, word)
    /\ mainPc' = "post"
    /\ UNCHANGED <<emitPc, mainI, i, offered, word, wordChannel, doneChannel,
                   ops, doneGot, panic>>

\* main.go:27: i++
MainPost ==
    /\ Running
    /\ UNCHANGED notesVars
    /\ mainPc = "post"
    /\ mainI' = mainI + 1
    /\ mainPc' = "for"
    /\ UNCHANGED <<emitPc, i, offered, word, output, wordChannel, doneChannel,
                   ops, doneGot, panic>>

\* main.go:30: doneChannel <- true
MainSendDone ==
    /\ Running
    /\ UNCHANGED notesVars
    /\ mainPc = "send"
    /\ IF doneChannel.closed
         THEN /\ panic' = "send on closed channel"
              /\ UNCHANGED <<mainPc, emitPc, mainI, i, offered, word, output,
                             wordChannel, doneChannel, ops, doneGot>>
         ELSE IF Len(doneChannel.buf) < DoneCap
           THEN /\ doneChannel' = [doneChannel EXCEPT !.buf = Append(@, TRUE)]
                /\ mainPc' = "return"
                /\ ops' = Bump(ops, <<"doneChannel", "send", "main">>)
                /\ UNCHANGED <<emitPc, mainI, i, offered, word, output,
                               wordChannel, doneGot, panic>>
           ELSE /\ doneChannel.buf = <<>>
                /\ DoneRendezvous

\* mutant: main returns only once emit has closed doneChannel
MainReturn_Wait ==
    /\ mainPc # "exited" /\ panic = "none"
    /\ UNCHANGED notesVars
    /\ mainPc = "return"
    /\ doneChannel.closed
    /\ mainPc' = "exited"
    /\ UNCHANGED <<emitPc, mainI, i, offered, word, output, wordChannel,
                   doneChannel, ops, doneGot, panic>>

\* mutant: main receives from doneChannel before it returns, as in the notes
MainReturn_RecvDone ==
    /\ mainPc # "exited" /\ panic = "none"
    /\ UNCHANGED notesVars
    /\ mainPc = "return"
    /\ doneChannel.closed
    /\ ops' = [ops EXCEPT ![<<"doneChannel", "recv", "main">>] = @ + 1]
    /\ mainPc' = "exited"
    /\ UNCHANGED <<emitPc, mainI, i, offered, word, output, wordChannel,
                   doneChannel, doneGot, panic>>

\* main.go:31: main returns and the process exits, whatever emit is doing
MainReturn ==
    /\ Running
    /\ UNCHANGED notesVars
    /\ mainPc = "return"
    /\ mainPc' = "exited"
    /\ UNCHANGED <<emitPc, mainI, i, offered, word, output, wordChannel,
                   doneChannel, ops, doneGot, panic>>

EmitStep ==
    \/ EmitStart
    \/ EmitEval
    \/ EmitSendWord
    \/ EmitRecvDone
    \/ EmitInc
    \/ EmitWrap
    \/ EmitClose
    \/ EmitReturn

MainStep ==
    \/ MainGo
    \/ MainFor
    \/ MainRecvWord
    \/ MainPrint
    \/ MainPost
    \/ MainSendDone
    \/ MainReturn

Next == EmitStep \/ MainStep

Spec == Init /\ [][Next]_vars

\* the Go scheduler runs every goroutine that can take a step
FairSpec == Spec /\ WF_vars(EmitStep) /\ WF_vars(MainStep)

(***************************************************************************)
(* The select program of the notes (notes.md:901-928).  Its emit is that   *)
(* of main.go up to the receive of the stop signal (notes.md:901-911 are   *)
(* main.go:5-15) and its main is that of main.go up to the send of the     *)
(* stop signal (notes.md:917-926 are main.go:21-30), so those steps are    *)
(* the actions above.  It differs after the stop signal: emit closes       *)
(* doneChannel, sends true on it and loops; main receives from doneChannel *)
(* before it returns.                                                      *)
(***************************************************************************)

\* notes.md:926 meets notes.md:911
NotesDoneRendezvous ==
    /\ emitPc = "select"
    /\ mainPc = "send"
    /\ doneGot' = Append(doneGot, [val |-> TRUE, ok |-> TRUE])
    /\ emitPc' = "close"
    /\ mainPc' = "wait"
    /\ ops' = Bump(Bump(ops, <<"doneChannel", "send", "main">>),
                   <<"doneChannel", "recv", "emit">>)
    /\ UNCHANGED <<mainI, i, offered, word, output, wordChannel, doneChannel,
                   panic>>

\* notes.md:911: case <-doneChannel
NotesEmitRecvDone ==
    /\ Running
    /\ UNCHANGED notesVars
    /\ emitPc = "select"
    /\ IF doneChannel.buf # <<>>
         THEN /\ doneGot' = Append(doneGot, [val |-> Head(doneChannel.buf), ok |-> TRUE])
              /\ doneChannel' = [doneChannel EXCEPT !.buf = Tail(@)]
              /\ emitPc' = "close"
              /\ ops' = Bump(ops, <<"doneChannel", "recv", "emit">>)
              /\ UNCHANGED <<mainPc, mainI, i, offered, word, output,
                             wordChannel, panic>>
         ELSE IF doneChannel.closed
           THEN /\ doneGot' = Append(doneGot, [val |-> FALSE, ok |-> FALSE])
                /\ emitPc' = "close"
                /\ ops' = Bump(ops, <<"doneChannel", "recv", "emit">>)
                /\ UNCHANGED <<mainPc, mainI, i, offered, word, output,
                               wordChannel, doneChannel, panic>>
           ELSE NotesDoneRendezvous

\* notes.md:912: close(doneChannel)
NotesEmitClose ==
    /\ Running
    /\ UNCHANGED notesVars
    /\ emitPc = "close"
    /\ IF doneChannel.closed
         THEN /\ panic' = "close of closed channel"
              /\ UNCHANGED <<emitPc, doneChannel, ops>>
         ELSE /\ doneChannel' = [doneChannel EXCEPT !.closed = TRUE]
              /\ ops' = Bump(ops, <<"doneChannel", "close", "emit">>)
              /\ emitPc' = "sendback"
              /\ panic' = panic
    /\ UNCHANGED <<mainPc, mainI, i, offered, word, output, wordChannel,
                   doneGot>>

\* notes.md:913 meets notes.md:927
NotesBackRendezvous ==
    /\ emitPc = "sendback"
    /\ mainPc = "wait"
    /\ doneGot' = Append(doneGot, [val |-> TRUE, ok |-> TRUE])
    /\ emitPc' = "for"
    /\ mainPc' = "return"
    /\ ops' = Bump(Bump(ops, <<"doneChannel", "send", "emit">>),
                   <<"doneChannel", "recv", "main">>)
    /\ UNCHANGED <<mainI, i, offered, word, output, wordChannel, doneChannel,
                   panic>>

\* notes.md:913: doneChannel <- true, then the loop goes on (notes.md:904)
NotesEmitSendBack ==
    /\ Running
    /\ UNCHANGED notesVars
    /\ emitPc = "sendback"
    /\ IF doneChannel.closed
         THEN /\ panic' = "send on closed channel"
              /\ UNCHANGED <<mainPc, emitPc, mainI, i, offered, word, output,
                             wordChannel, doneChannel, ops, doneGot>>
         ELSE IF Len(doneChannel.buf) < DoneCap
           THEN /\ doneChannel' = [doneChannel EXCEPT !.buf = Append(@, TRUE)]
                /\ emitPc' = "for"
                /\ ops' = Bump(ops, <<"doneChannel", "send", "emit">>)
                /\ UNCHANGED <<mainPc, mainI, i, offered, word, output,
                               wordChannel, doneGot, panic>>
           ELSE /\ doneChannel.buf = <<>>
                /\ NotesBackRendezvous

\* notes.md:926: doneChannel <- true
NotesMainSendDone ==
    /\ Running
    /\ UNCHANGED notesVars
    /\ mainPc = "send"
    /\ IF doneChannel.closed
         THEN /\ panic' = "send on closed channel"
              /\ UNCHANGED <<mainPc, emitPc, mainI, i, offered, word, output,
                             wordChannel, doneChannel, ops, doneGot>>
         ELSE IF Len(doneChannel.buf) < DoneCap
           THEN /\ doneChannel' = [doneChannel EXCEPT !.buf = Append(@, TRUE)]
                /\ mainPc' = "wait"
                /\ ops' = Bump(ops, <<"doneChannel", "send", "main">>)
                /\ UNCHANGED <<emitPc, mainI, i, offered, word, output,
                               wordChannel, doneGot, panic>>
           ELSE /\ doneChannel.buf = <<>>
                /\ NotesDoneRendezvous

\* notes.md:927: <-doneChannel
NotesMainRecvDone ==
    /\ Running
    /\ UNCHANGED notesVars
    /\ mainPc = "wait"
    /\ IF doneChannel.buf # <<>>
         THEN /\ doneGot' = Append(doneGot, [val |-> Head(doneChannel.buf), ok |-> TRUE])
              /\ doneChannel' = [doneChannel EXCEPT !.buf = Tail(@)]
              /\ mainPc' = "return"
              /\ ops' = Bump(ops, <<"doneChannel", "recv", "main">>)
              /\ UNCHANGED <<emitPc, mainI, i, offered, word, output,
                             wordChannel, panic>>
         ELSE IF doneChannel.closed
           THEN /\ doneGot' = Append(doneGot, [val |-> FALSE, ok |-> FALSE])
                /\ mainPc' = "return"
                /\ ops' = Bump(ops, <<"doneChannel", "recv", "main">>)
                /\ UNCHANGED <<emitPc, mainI, i, offered, word, output,
                               wordChannel, doneChannel, panic>>
           ELSE /\ Len(doneChannel.buf) >= DoneCap
                /\ NotesBackRendezvous

NotesEmitStep ==
    \/ EmitStart
    \/ EmitEval
    \/ EmitSendWord
    \/ NotesEmitRecvDone
    \/ EmitInc
    \/ EmitWrap
    \/ NotesEmitClose
    \/ NotesEmitSendBack

NotesMainStep ==
    \/ MainGo
    \/ MainFor
    \/ MainRecvWord
    \/ MainPrint
    \/ MainPost
    \/ NotesMainSendDone
    \/ NotesMainRecvDone
    \/ MainReturn

NotesNext == NotesEmitStep \/ NotesMainStep

NotesSpec == Init /\ [][NotesNext]_vars

(***************************************************************************)
(* The same program with main's final receive (notes.md:927) left out, the *)
(* case of notes.md:930-931: main is main.go's main, emit is the notes'.   *)
(***************************************************************************)

NoWaitEmitStep ==
    \/ EmitStart
    \/ EmitEval
    \/ EmitSendWord
    \/ EmitRecvDone
    \/ EmitInc
    \/ EmitWrap
    \/ NotesEmitClose
    \/ NotesEmitSendBack

NoWaitNext == NoWaitEmitStep \/ MainStep

NoWaitSpec == Init /\ [][NoWaitNext]_vars

(***************************************************************************)
(* The id generator of the notes (notes.md:873-889): getID keeps id to     *)
(* itself and sends id+1, id+2, ... on the unbuffered idChan; main prints  *)
(* what it receives.  Three receives are written out, followed by "on and  *)
(* on!"; main goes on here for MaxIds receives and then returns.           *)
(***************************************************************************)

MaxIds == 30

\* notes.md:881: make(chan int) has no buffer
IdCap == 0

IdRunning == idMainPc # "exited"

\* notes.md:877 meets notes.md:885
IdRendezvous ==
    /\ idPc = "send"
    /\ idMainPc = "recv"
    /\ idGot' = Append(idGot, id)
    /\ idPc' = "inc"
    /\ idMainPc' = "print"
    /\ UNCHANGED <<id, idChan>>

\* notes.md:874: id := 0
IdStart ==
    /\ IdRunning
    /\ idPc = "start"
    /\ id' = 0
    /\ idPc' = "inc"
    /\ UNCHANGED <<idMainPc, idChan, idGot>>
    /\ UNCHANGED <<mainPc, emitPc, mainI, i, offered, word, output, wordChannel,
                   doneChannel, ops, doneGot, panic, timerVars, semaVars,
                   printerVars>>

\* mutant: the increment is missing
IdInc_Missing ==
    /\ idMainPc # "exited"
    /\ idPc = "inc"
    /\ id' = id
    /\ idPc' = "send"
    /\ UNCHANGED <<idMainPc, idChan, idGot>>
    /\ UNCHANGED <<mainPc, emitPc, mainI, i, offered, word, output, wordChannel,
                   doneChannel, ops, doneGot, panic, timerVars, semaVars,
                   printerVars>>

\* notes.md:876: id++
IdInc ==
    /\ IdRunning
    /\ idPc = "inc"
    /\ id' = id + 1
    /\ idPc' = "send"
    /\ UNCHANGED <<idMainPc, idChan, idGot>>
    /\ UNCHANGED <<mainPc, emitPc, mainI, i, offered, word, output, wordChannel,
                   doneChannel, ops, doneGot, panic, timerVars, semaVars,
                   printerVars>>

\* notes.md:877: idChannel <- id
IdSend ==
    /\ IdRunning
    /\ idPc = "send"
    /\ IF Len(idChan.buf) < IdCap
         THEN /\ idChan' = [idChan EXCEPT !.buf = Append(@, id)]
              /\ idPc' = "inc"
              /\ UNCHANGED <<idMainPc, id, idGot>>
         ELSE /\ idChan.buf = <<>>
              /\ IdRendezvous
    /\ UNCHANGED <<mainPc, emitPc, mainI, i, offered, word, output, wordChannel,
                   doneChannel, ops, doneGot, panic, timerVars, semaVars,
                   printerVars>>

\* notes.md:883: go getID(idChan)
IdMainGo ==
    /\ IdRunning
    /\ idMainPc = "go"
    /\ idPc' = "start"
    /\ idMainPc' = "recv"
    /\ UNCHANGED <<id, idChan, idGot>>
    /\ UNCHANGED <<mainPc, emitPc, mainI, i, offered, word, output, wordChannel,
                   doneChannel, ops, doneGot, panic, timerVars, semaVars,
                   printerVars>>

\* notes.md:885-887: <-idChan
IdMainRecv ==
    /\ IdRunning
    /\ idMainPc = "recv"
    /\ IF idChan.buf # <<>>
         THEN /\ idGot' = Append(idGot, Head(idChan.buf))
              /\ idChan' = [idChan EXCEPT !.buf = Tail(@)]
              /\ idMainPc' = "print"
              /\ UNCHANGED <<idPc, id>>
         ELSE /\ Len(idChan.buf) >= IdCap
              /\ IdRendezvous
    /\ UNCHANGED <<mainPc, emitPc, mainI, i, offered, word, output, wordChannel,
                   doneChannel, ops, doneGot, panic, timerVars, semaVars,
                   printerVars>>

\* notes.md:885-888: fmt.Printf of the id received, then the next receive
IdMainPrint ==
    /\ IdRunning
    /\ idMainPc = "print"
    /\ idMainPc' = IF Len(idGot) < MaxIds THEN "recv" ELSE "return"
    /\ UNCHANGED <<idPc, id, idChan, idGot>>
    /\ UNCHANGED <<mainPc, emitPc, mainI, i, offered, word, output, wordChannel,
                   doneChannel, ops, doneGot, panic, timerVars, semaVars,
                   printerVars>>

\* notes.md:889: main returns and the process exits
IdMainReturn ==
    /\ IdRunning
    /\ idMainPc = "return"
    /\ idMainPc' = "exited"
    /\ UNCHANGED <<idPc, id, idChan, idGot>>
    /\ UNCHANGED <<mainPc, emitPc, mainI, i, offered, word, output, wordChannel,
                   doneChannel, ops, doneGot, panic, timerVars, semaVars,
                   printerVars>>

IdNext ==
    \/ IdStart
    \/ IdInc
    \/ IdSend
    \/ IdMainGo
    \/ IdMainRecv
    \/ IdMainPrint
    \/ IdMainReturn

IdSpec == Init /\ [][IdNext]_vars

(***************************************************************************)
(* The closing-channels example of the notes, with the first printer       *)
(* (notes.md:1073-1076) and main (notes.md:1097-1106): ten printers block  *)
(* on a receive from goCh, on which nothing is ever sent; main closes goCh *)
(* after a sleep, sleeps again and returns.  A sleep is a step that can    *)
(* take any time.                                                          *)
(***************************************************************************)

PrRunning == prMainPc # "exited"

\* notes.md:1100-1102: for i := 0; i < 10; i++ { go printer(...) }
PrMainSpawn ==
    /\ PrRunning
    /\ prMainPc = "spawn"
    /\ IF prI < NumPrinters
         THEN /\ printerPc' = [printerPc EXCEPT ![prI] = "recv"]
              /\ prI' = prI + 1
              /\ prMainPc' = prMainPc
         ELSE /\ prMainPc' = "sleep"
              /\ UNCHANGED <<printerPc, prI>>
    /\ UNCHANGED <<goCh, printed>>
    /\ UNCHANGED <<mainPc, emitPc, mainI, i, offered, word, output, wordChannel,
                   doneChannel, ops, doneGot, panic, timerVars, semaVars,
                   idVars>>

\* notes.md:1103: time.Sleep(2 * time.Second)
PrMainSleep ==
    /\ PrRunning
    /\ prMainPc = "sleep"
    /\ prMainPc' = "close"
    /\ UNCHANGED <<prI, goCh, printerPc, printed>>
    /\ UNCHANGED <<mainPc, emitPc, mainI, i, offered, word, output, wordChannel,
                   doneChannel, ops, doneGot, panic, timerVars, semaVars,
                   idVars>>

\* mutant: goCh <- true in place of close(goCh): one printer takes the value
PrMainClose_Send ==
    /\ prMainPc # "exited"
    /\ prMainPc = "close"
    /\ ~goCh.closed
    /\ \E p \in Printers :
         /\ printerPc[p] = "recv"
         /\ printerPc' = [printerPc EXCEPT ![p] = "print"]
    /\ prMainPc' = "sleep2"
    /\ UNCHANGED <<prI, goCh, printed>>
    /\ UNCHANGED <<mainPc, emitPc, mainI, i, offered, word, output, wordChannel,
                   doneChannel, ops, doneGot, panic, timerVars, semaVars,
                   idVars>>

\* notes.md:1104: close(goCh)
PrMainClose ==
    /\ PrRunning
    /\ prMainPc = "close"
    /\ ~goCh.closed
    /\ goCh' = [goCh EXCEPT !.closed = TRUE]
    /\ prMainPc' = "sleep2"
    /\ UNCHANGED <<prI, printerPc, printed>>
    /\ UNCHANGED <<mainPc, emitPc, mainI, i, offered, word, output, wordChannel,
                   doneChannel, ops, doneGot, panic, timerVars, semaVars,
                   idVars>>

\* notes.md:1105: time.Sleep(3 * time.Second)
PrMainSleep2 ==
    /\ PrRunning
    /\ prMainPc = "sleep2"
    /\ prMainPc' = "return"
    /\ UNCHANGED <<prI, goCh, printerPc, printed>>
    /\ UNCHANGED <<mainPc, emitPc, mainI, i, offered, word, output, wordChannel,
                   doneChannel, ops, doneGot, panic, timerVars, semaVars,
                   idVars>>

\* notes.md:1106: main returns and the process exits
PrMainReturn ==
    /\ PrRunning
    /\ prMainPc = "return"
    /\ prMainPc' = "exited"
    /\ UNCHANGED <<prI, goCh, printerPc, printed>>
    /\ UNCHANGED <<mainPc, emitPc, mainI, i, offered, word, output, wordChannel,
                   doneChannel, ops, doneGot, panic, timerVars, semaVars,
                   idVars>>

\* notes.md:1074: <-goCh completes with a buffered value or on a closed channel
PrinterRecv(p) ==
    /\ PrRunning
    /\ printerPc[p] = "recv"
    /\ IF goCh.buf # <<>>
         THEN goCh' = [goCh EXCEPT !.buf = Tail(@)]
         ELSE /\ goCh.closed
              /\ goCh' = goCh
    /\ printerPc' = [printerPc EXCEPT ![p] = "print"]
    /\ UNCHANGED <<prMainPc, prI, printed>>
    /\ UNCHANGED <<mainPc, emitPc, mainI, i, offered, word, output, wordChannel,
                   doneChannel, ops, doneGot, panic, timerVars, semaVars,
                   idVars>>

\* notes.md:1075-1076: fmt.Printf("%s\n", msg) and the printer returns
PrinterPrint(p) ==
    /\ PrRunning
    /\ printerPc[p] = "print"
    /\ printed' = printed \cup {p}
    /\ printerPc' = [printerPc EXCEPT ![p] = "done"]
    /\ UNCHANGED <<prMainPc, prI, goCh>>
    /\ UNCHANGED <<mainPc, emitPc, mainI, i, offered, word, output, wordChannel,
                   doneChannel, ops, doneGot, panic, timerVars, semaVars,
                   idVars>>

PrNext ==
    \/ PrMainSpawn
    \/ PrMainSleep
    \/ PrMainClose
    \/ PrMainSleep2
    \/ PrMainReturn
    \/ \E p \in Printers : PrinterRecv(p)
    \/ \E p \in Printers : PrinterPrint(p)

PrSpec == Init /\ [][PrNext]_vars

(***************************************************************************)
(* The timer example of the notes (notes.md:937-963), on the variables of  *)
(* main.go: emit offers words[i] on wordChannel until its three-second     *)
(* timer has put a value on t.C, then returns, which runs the deferred     *)
(* close(wordChannel); main ranges over wordChannel.  The send operand,    *)
(* i++ and the wrap (notes.md:945-949) are main.go:10-14, the actions      *)
(* EmitEval, EmitInc and EmitWrap.  The printed words are kept up to       *)
(* MaxPrinted of them.                                                     *)
(***************************************************************************)

\* notes.md:940: 3 * time.Second
TimerSeconds == 3

MaxPrinted == 3

\* notes.md:945 meets notes.md:960
TmWordRendezvous ==
    /\ emitPc = "select"
    /\ mainPc = "range"
    /\ word' = offered
    /\ emitPc' = "inc"
    /\ mainPc' = "print"
    /\ UNCHANGED <<i, offered, output, wordChannel, panic, tLeft, tC>>

\* notes.md:938-942: defer close(wordChannel); i := 0; t := time.NewTimer(...)
TmEmitStart ==
    /\ Running
    /\ emitPc = "start"
    /\ i' = 0
    /\ tLeft' = TimerSeconds
    /\ emitPc' = "for"
    /\ UNCHANGED <<mainPc, offered, word, output, wordChannel, panic, tC>>
    /\ UNCHANGED <<mainI, doneChannel, ops, doneGot, semaVars, printerVars,
                   idVars>>

\* the runtime's timer: a second passes; at the last one a value is put on t.C
TmTick ==
    /\ Running
    /\ tLeft > 0
    /\ tLeft' = tLeft - 1
    /\ tC' = IF tLeft = 1 THEN [tC EXCEPT !.buf = Append(@, "time")] ELSE tC
    /\ UNCHANGED <<mainPc, emitPc, i, offered, word, output, wordChannel, panic>>
    /\ UNCHANGED <<mainI, doneChannel, ops, doneGot, semaVars, printerVars,
                   idVars>>

\* notes.md:945: case wordChannel <- words[i]
TmEmitSendWord ==
    /\ Running
    /\ emitPc = "select"
    /\ IF wordChannel.closed
         THEN /\ panic' = "send on closed channel"
              /\ UNCHANGED <<mainPc, emitPc, i, offered, word, output,
                             wordChannel, tLeft, tC>>
         ELSE IF Len(wordChannel.buf) < WordCap
           THEN /\ wordChannel' = [wordChannel EXCEPT !.buf = Append(@, offered)]
                /\ emitPc' = "inc"
                /\ UNCHANGED <<mainPc, i, offered, word, output, panic, tLeft, tC>>
           ELSE /\ wordChannel.buf = <<>>
                /\ TmWordRendezvous
    /\ UNCHANGED <<mainI, doneChannel, ops, doneGot, semaVars, printerVars,
                   idVars>>

\* mutant: the timer case has no return and the loop goes on
TmEmitRecvTimer_NoReturn ==
    /\ mainPc # "exited" /\ panic = "none"
    /\ emitPc = "select"
    /\ tC.buf # <<>>
    /\ tC' = [tC EXCEPT !.buf = Tail(@)]
    /\ emitPc' = "for"
    /\ UNCHANGED <<mainPc, i, offered, word, output, wordChannel, panic, tLeft>>
    /\ UNCHANGED <<mainI, doneChannel, ops, doneGot, semaVars, printerVars,
                   idVars>>

\* notes.md:950-951: case <-t.C: return
TmEmitRecvTimer ==
    /\ Running
    /\ emitPc = "select"
    /\ tC.buf # <<>>
    /\ tC' = [tC EXCEPT !.buf = Tail(@)]
    /\ emitPc' = "return"
    /\ UNCHANGED <<mainPc, i, offered, word, output, wordChannel, panic, tLeft>>
    /\ UNCHANGED <<mainI, doneChannel, ops, doneGot, semaVars, printerVars,
                   idVars>>

\* notes.md:951 runs notes.md:938: the deferred close(wordChannel)
TmEmitReturn ==
    /\ Running
    /\ emitPc = "return"
    /\ IF wordChannel.closed
         THEN /\ panic' = "close of closed channel"
              /\ UNCHANGED <<emitPc, wordChannel>>
         ELSE /\ wordChannel' = [wordChannel EXCEPT !.closed = TRUE]
              /\ emitPc' = "done"
              /\ panic' = panic
    /\ UNCHANGED <<mainPc, i, offered, word, output, tLeft, tC>>
    /\ UNCHANGED <<mainI, doneChannel, ops, doneGot, semaVars, printerVars,
                   idVars>>

\* notes.md:958: go emit(wordChannel)
TmMainGo ==
    /\ Running
    /\ mainPc = "go"
    /\ emitPc' = "start"
    /\ mainPc' = "range"
    /\ UNCHANGED <<i, offered, word, output, wordChannel, panic, tLeft, tC>>
    /\ UNCHANGED <<mainI, doneChannel, ops, doneGot, semaVars, printerVars,
                   idVars>>

\* notes.md:960: for word := range wordChannel
TmMainRange ==
    /\ Running
    /\ mainPc = "range"
    /\ IF wordChannel.buf # <<>>
         THEN /\ word' = Head(wordChannel.buf)
              /\ wordChannel' = [wordChannel EXCEPT !.buf = Tail(@)]
              /\ mainPc' = "print"
              /\ UNCHANGED <<emitPc, i, offered, output, panic, tLeft, tC>>
         ELSE IF wordChannel.closed
           THEN /\ mainPc' = "return"
                /\ UNCHANGED <<emitPc, i, offered, word, output, wordChannel,
                               panic, tLeft, tC>>
           ELSE /\ Len(wordChannel.buf) >= WordCap
                /\ TmWordRendezvous
    /\ UNCHANGED <<mainI, doneChannel, ops, doneGot, semaVars, printerVars,
                   idVars>>

\* notes.md:961: fmt.Printf("%s\n", word)
TmMainPrint ==
    /\ Running
    /\ mainPc = "print"
    /\ output' = IF Len(output) < MaxPrinted THEN Append(output, word) ELSE output
    /\ mainPc' = "range"
    /\ UNCHANGED <<emitPc, i, offered, word, wordChannel, panic, tLeft, tC>>
    /\ UNCHANGED <<mainI, doneChannel, ops, doneGot, semaVars, printerVars,
                   idVars>>

\* notes.md:963: main returns and the process exits
TmMainReturn ==
    /\ Running
    /\ mainPc = "return"
    /\ mainPc' = "exited"
    /\ UNCHANGED <<emitPc, i, offered, word, output, wordChannel, panic, tLeft, tC>>
    /\ UNCHANGED <<mainI, doneChannel, ops, doneGot, semaVars, printerVars,
                   idVars>>

TmEmitStep ==
    \/ TmEmitStart
    \/ EmitEval
    \/ TmEmitSendWord
    \/ TmEmitRecvTimer
    \/ EmitInc
    \/ EmitWrap
    \/ TmEmitReturn

TmMainStep ==
    \/ TmMainGo
    \/ TmMainRange
    \/ TmMainPrint
    \/ TmMainReturn

TmNext == TmEmitStep \/ TmMainStep \/ TmTick

TmSpec == Init /\ [][TmNext]_vars

\* Every goroutine that can step is run and time passes.  A select with
\* several ready cases picks one uniformly at random, so a case that is ready
\* at infinitely many selects is eventually the one picked.
TmFairSpec ==
    /\ TmSpec
    /\ WF_vars(TmEmitStep)
    /\ WF_vars(TmMainStep)
    /\ WF_vars(TmTick)
    /\ SF_vars(TmEmitRecvTimer)

(***************************************************************************)
(* The semaphore example of the notes (notes.md:1176-1199): main starts    *)
(* the workers, then puts cap(sema) tokens into the buffered sema; a       *)
(* worker takes a token, runs work(), which counts itself in and out of    *)
(* running, and puts the token back.  The workers run the same code and    *)
(* have no state of their own, so workerAt counts the workers at each      *)
(* place of that code.  The source starts 1000 workers; NumWorkers of them *)
(* are started here.                                                       *)
(***************************************************************************)

NumWorkers == 12

\* notes.md:1189: make(chan bool, 10)
SemaCap == 10

SemaRunning == semaMainPc # "exited"

\* one worker goes from place a to place b
Move(w, a, b) == [w EXCEPT ![a] = @ - 1, ![b] = @ + 1]

\* notes.md:1191-1193: for i := 0; i < 1000; i++ { go worker(sema) }
SemaMainSpawn ==
    /\ SemaRunning
    /\ semaMainPc = "spawn"
    /\ IF semaI < NumWorkers
         THEN /\ workerAt' = [workerAt EXCEPT !["recv"] = @ + 1]
              /\ semaI' = semaI + 1
              /\ semaMainPc' = semaMainPc
         ELSE /\ semaMainPc' = "fill"
              /\ semaI' = 0
              /\ workerAt' = workerAt
    /\ UNCHANGED <<sema, running>>
    /\ UNCHANGED <<mainPc, emitPc, mainI, i, offered, word, output, wordChannel,
                   doneChannel, ops, doneGot, panic, timerVars, printerVars,
                   idVars>>

\* mutant: for i := 0; i <= cap(sema); i++
SemaMainFill_OneMore ==
    /\ semaMainPc # "exited"
    /\ semaMainPc = "fill"
    /\ IF semaI <= SemaCap
         THEN /\ Len(sema.buf) < SemaCap
              /\ sema' = [sema EXCEPT !.buf = Append(@, TRUE)]
              /\ semaI' = semaI + 1
              /\ semaMainPc' = semaMainPc
         ELSE /\ semaMainPc' = "sleep"
              /\ UNCHANGED <<sema, semaI>>
    /\ UNCHANGED <<workerAt, running>>
    /\ UNCHANGED <<mainPc, emitPc, mainI, i, offered, word, output, wordChannel,
                   doneChannel, ops, doneGot, panic, timerVars, printerVars,
                   idVars>>

\* notes.md:1195-1197: for i := 0; i < cap(sema); i++ { sema <- true }
SemaMainFill ==
    /\ SemaRunning
    /\ semaMainPc = "fill"
    /\ IF semaI < SemaCap
         THEN /\ Len(sema.buf) < SemaCap
              /\ sema' = [sema EXCEPT !.buf = Append(@, TRUE)]
              /\ semaI' = semaI + 1
              /\ semaMainPc' = semaMainPc
         ELSE /\ semaMainPc' = "sleep"
              /\ UNCHANGED <<sema, semaI>>
    /\ UNCHANGED <<workerAt, running>>
    /\ UNCHANGED <<mainPc, emitPc, mainI, i, offered, word, output, wordChannel,
                   doneChannel, ops, doneGot, panic, timerVars, printerVars,
                   idVars>>

\* notes.md:1198-1199: time.Sleep(time.Second * 30), then main returns and the
\* process exits
SemaMainSleep ==
    /\ SemaRunning
    /\ semaMainPc = "sleep"
    /\ semaMainPc' = "exited"
    /\ UNCHANGED <<semaI, sema, workerAt, running>>
    /\ UNCHANGED <<mainPc, emitPc, mainI, i, offered, word, output, wordChannel,
                   doneChannel, ops, doneGot, panic, timerVars, printerVars,
                   idVars>>

\* notes.md:1184: <-sema
WorkerRecv ==
    /\ SemaRunning
    /\ workerAt["recv"] > 0
    /\ sema.buf # <<>>
    /\ sema' = [sema EXCEPT !.buf = Tail(@)]
    /\ workerAt' = Move(workerAt, "recv", "add")
    /\ UNCHANGED <<semaMainPc, semaI, running>>
    /\ UNCHANGED <<mainPc, emitPc, mainI, i, offered, word, output, wordChannel,
                   doneChannel, ops, doneGot, panic, timerVars, printerVars,
                   idVars>>

\* notes.md:1178: atomic.AddInt64(&running, 1)
WorkerAdd ==
    /\ SemaRunning
    /\ workerAt["add"] > 0
    /\ running' = running + 1
    /\ workerAt' = Move(workerAt, "add", "sleep")
    /\ UNCHANGED <<semaMainPc, semaI, sema>>
    /\ UNCHANGED <<mainPc, emitPc, mainI, i, offered, word, output, wordChannel,
                   doneChannel, ops, doneGot, panic, timerVars, printerVars,
                   idVars>>

\* notes.md:1179-1180: fmt.Printf and time.Sleep
WorkerSleep ==
    /\ SemaRunning
    /\ workerAt["sleep"] > 0
    /\ workerAt' = Move(workerAt, "sleep", "sub")
    /\ UNCHANGED <<semaMainPc, semaI, sema, running>>
    /\ UNCHANGED <<mainPc, emitPc, mainI, i, offered, word, output, wordChannel,
                   doneChannel, ops, doneGot, panic, timerVars, printerVars,
                   idVars>>

\* notes.md:1181: atomic.AddInt64(&running, -1)
WorkerSub ==
    /\ SemaRunning
    /\ workerAt["sub"] > 0
    /\ running' = running - 1
    /\ workerAt' = Move(workerAt, "sub", "send")
    /\ UNCHANGED <<semaMainPc, semaI, sema>>
    /\ UNCHANGED <<mainPc, emitPc, mainI, i, offered, word, output, wordChannel,
                   doneChannel, ops, doneGot, panic, timerVars, printerVars,
                   idVars>>

\* notes.md:1186: sema <- true
WorkerSend ==
    /\ SemaRunning
    /\ workerAt["send"] > 0
    /\ Len(sema.buf) < SemaCap
    /\ sema' = [sema EXCEPT !.buf = Append(@, TRUE)]
    /\ workerAt' = Move(workerAt, "send", "done")
    /\ UNCHANGED <<semaMainPc, semaI, running>>
    /\ UNCHANGED <<mainPc, emitPc, mainI, i, offered, word, output, wordChannel,
                   doneChannel, ops, doneGot, panic, timerVars, printerVars,
                   idVars>>

SemaNext ==
    \/ SemaMainSpawn
    \/ SemaMainFill
    \/ SemaMainSleep
    \/ WorkerRecv
    \/ WorkerAdd
    \/ WorkerSleep
    \/ WorkerSub
    \/ WorkerSend

SemaSpec == Init /\ [][SemaNext]_vars

TypeOK ==
    /\ mainPc \in {"go", "for", "recv", "print", "post", "send", "wait", "return",
                   "exited"}
    /\ emitPc \in {"unborn", "start", "for", "select", "inc", "wrap", "close",
                   "sendback", "return", "done"}
    /\ mainI \in 0 .. (LastIndex + 1)
    /\ i \in 0 .. Len(words)
    /\ Len(output) <= NumReceives
    /\ ops \in [OpKey -> 0 .. NumReceives]
    /\ panic = "none"

(***************************************************************************)
(* Properties                                                              *)
(***************************************************************************)

\* the k-th element (from 1) of the three-word cycle repeated
Cycle(k) == <<"feed", "the", "monkey">>[((k - 1) % 3) + 1]

\* C1: main prints exactly 101 words, and the k-th word printed (from 0) is
\* element k mod 3 of ("feed","the","monkey"), in every interleaving: the
\* output is always a prefix of the repeated cycle, never longer than 101,
\* and has 101 words once main has left its loop.
C1_OutputIsCycle ==
    /\ Len(output) <= 101
    /\ \A k \in 1 .. Len(output) : output[k] = Cycle(k)
    /\ mainPc \in {"send", "return", "exited"} => Len(output) = 101

C1_Witness ==
    /\ mainPc = "exited"
    /\ Len(output) = 101
    /\ output[1] = "feed" /\ output[100] = "feed" /\ output[101] = "the"

\* C2: under fair scheduling of the two goroutines every execution reaches
\* main's return; main does not stay blocked on a receive from wordChannel
\* nor on its send on doneChannel.
C2_Terminates ==
    /\ <>(mainPc = "exited" /\ panic = "none")
    /\ (mainPc = "recv") ~> (mainPc = "print")
    /\ (mainPc = "send") ~> (mainPc = "return")

C2_Witness ==
    /\ mainPc = "exited"
    /\ panic = "none"
    /\ Recvs("wordChannel") = 101

\* C3: the stop signal is delivered exactly once: at most one send on
\* doneChannel ever completes, exactly one has completed when main returns,
\* it is main's, and emit's select case received that value (true, from an
\* open channel); nothing stays buffered.
C3_StopOnce ==
    /\ Sends("doneChannel") <= 1
    /\ Done("doneChannel", "send", "emit") = 0
    /\ Done("doneChannel", "recv", "main") = 0
    /\ Done("doneChannel", "recv", "emit") = Done("doneChannel", "send", "main")
    /\ Len(doneGot) = Done("doneChannel", "recv", "emit")
    /\ \A k \in 1 .. Len(doneGot) : doneGot[k] = [val |-> TRUE, ok |-> TRUE]
    /\ mainPc \in {"return", "exited"} => Done("doneChannel", "send", "main") = 1

C3_Witness ==
    /\ mainPc = "exited"
    /\ Sends("doneChannel") = 1
    /\ doneGot = <<[val |-> TRUE, ok |-> TRUE]>>

\* C4: main's send on doneChannel is neither enabled nor completed before
\* main has completed all 101 receives from wordChannel, and main completes
\* no receive on wordChannel once the stop signal is sent.
C4_ConsumerOrder ==
    /\ []((mainPc = "send" \/ ENABLED MainSendDone
                \/ Done("doneChannel", "send", "main") > 0)
            => Done("wordChannel", "recv", "main") = 101)
    /\ [][Done("doneChannel", "send", "main") > 0
          => Done("wordChannel", "recv", "main")' = Done("wordChannel", "recv", "main")]_vars

C4_Witness ==
    /\ Done("doneChannel", "send", "main") = 1
    /\ Done("wordChannel", "recv", "main") = 101
    /\ mainPc = "return"

\* C5 (as stated): once main's send of the stop signal has completed, emit
\* executes close(doneChannel) and reaches its return in every execution; so
\* when the process ends emit has closed the channel and returned.
C5_EmitAlwaysReturns ==
    mainPc = "exited" => emitPc = "done" /\ Closes("doneChannel") = 1

\* C5 (amended): once main's send of the stop signal has completed, emit is
\* never blocked again: it has returned, or its next step (close(doneChannel)
\* or the return) is enabled, unless main's return has ended the process.
C5_EmitNeverBlocksAfterStop ==
    Done("doneChannel", "send", "main") >= 1 =>
        \/ emitPc = "done"
        \/ mainPc = "exited"
        \/ emitPc \in {"close", "return"} /\ ENABLED EmitStep

C5_Witness ==
    /\ Done("doneChannel", "send", "main") = 1
    /\ doneChannel.closed
    /\ emitPc = "done"

\* C6: after receiving the stop signal emit only closes doneChannel and then
\* returns: doneChannel is closed by emit alone, after the stop signal was
\* received, at most once, and emit completes no further send on wordChannel
\* and no further receive on doneChannel.
C6_OnlyCloseThenReturn ==
    /\ [](/\ Done("doneChannel", "close", "main") = 0
          /\ Closes("doneChannel") <= 1
          /\ Closes("doneChannel") <= Done("doneChannel", "recv", "emit")
          /\ doneChannel.closed <=> Closes("doneChannel") = 1)
    /\ [][Done("doneChannel", "recv", "emit") >= 1 =>
            /\ Done("wordChannel", "send", "emit")' = Done("wordChannel", "send", "emit")
            /\ Done("doneChannel", "recv", "emit")' = Done("doneChannel", "recv", "emit")
            /\ emitPc' # emitPc =>
                 <<emitPc, emitPc'>> \in {<<"close", "return">>, <<"return", "done">>}
            /\ doneChannel' # doneChannel =>
                 emitPc = "close" /\ doneChannel'.closed]_vars

C6_Witness ==
    /\ Done("doneChannel", "recv", "emit") = 1
    /\ Closes("doneChannel") = 1
    /\ emitPc = "done"

\* the places from which emit reaches its select without blocking
EmitTowardsSelect == {"start", "for", "select", "inc", "wrap"}

\* C7: while main has not returned some step is enabled; when main is blocked
\* receiving on wordChannel emit is at, or on its way to, the select with the
\* word-send case enabled, and when main is blocked sending on doneChannel
\* emit is at, or on its way to, the select with the stop-receive case enabled.
C7_NoDeadlock ==
    mainPc # "exited" =>
        /\ ENABLED Next
        /\ mainPc = "recv" =>
             /\ emitPc \in EmitTowardsSelect
             /\ emitPc = "select" => ENABLED EmitSendWord
             /\ emitPc # "select" => ENABLED EmitStep
        /\ mainPc = "send" =>
             /\ emitPc \in EmitTowardsSelect
             /\ emitPc = "select" => ENABLED EmitRecvDone
             /\ emitPc # "select" => ENABLED EmitStep

C7_Witness ==
    /\ mainPc = "send"
    /\ emitPc = "select"
    /\ ENABLED EmitRecvDone
    /\ ~ENABLED EmitSendWord

\* C8: wordChannel is a synchronous rendezvous: the words emit has sent are
\* always as many as the words main has received, none is buffered, and a
\* send on wordChannel completes only in the step of the matching receive.
C8_WordRendezvous ==
    /\ [](/\ Done("wordChannel", "send", "emit") = Done("wordChannel", "recv", "main")
          /\ wordChannel.buf = <<>>)
    /\ [][Sends("wordChannel")' # Sends("wordChannel") =>
            /\ Sends("wordChannel")' = Sends("wordChannel") + 1
            /\ Recvs("wordChannel")' = Recvs("wordChannel") + 1
            /\ word' = offered]_vars

C8_Witness ==
    /\ Done("wordChannel", "send", "emit") = 101
    /\ Done("wordChannel", "recv", "main") = 101
    /\ word = "the"

\* C10: whenever emit evaluates words[i] for the select, 0 <= i <= 2 and i is
\* the number of words sent so far modulo 3, and the word offered is words[i];
\* a completed send of words[i] is followed, at the next select, by index
\* (i+1) mod 3.
C10_IndexWraps ==
    /\ [](emitPc \in {"for", "select"} =>
            /\ i \in 0 .. 2
            /\ i = Sends("wordChannel") % 3)
    /\ [](emitPc = "select" => offered = <<"feed", "the", "monkey">>[i + 1])
    /\ [][emitPc = "wrap" /\ emitPc' = "for" => i' = i % 3]_vars
    /\ [][emitPc = "select" /\ emitPc' = "inc" => i' = i]_vars

C10_Witness ==
    /\ emitPc = "select"
    /\ i = 0
    /\ Sends("wordChannel") = 99

\* C11: no execution reaches a run-time error: no send on a closed
\* doneChannel, no close of an already closed channel, no index into words
\* outside 0..2; the operations that could fail are only reached in states
\* where they succeed.
C11_NoRuntimeError ==
    /\ panic = "none"
    /\ mainPc = "send" => ~doneChannel.closed
    /\ emitPc = "close" => ~doneChannel.closed
    /\ emitPc = "select" => ~wordChannel.closed
    /\ emitPc = "for" => i \in 0 .. 2

C11_Witness ==
    /\ doneChannel.closed
    /\ Closes("doneChannel") = 1
    /\ Sends("doneChannel") = 1
    /\ panic = "none"

\* C18: the two cases of emit's select are never enabled in the same state:
\* with main blocked receiving only the word-send case can fire, with main
\* blocked sending only the stop-receive case can fire; so the channel events
\* are 101 word rendezvous followed by one stop rendezvous in every execution.
C18_SelectForced ==
    /\ [](~(ENABLED EmitSendWord /\ ENABLED EmitRecvDone))
    /\ [](ENABLED EmitSendWord => mainPc = "recv")
    /\ [](ENABLED EmitRecvDone => mainPc = "send")
    /\ [](/\ Sends("wordChannel") <= 101
          /\ Sends("doneChannel") <= 1
          /\ Sends("doneChannel") = 1 => Sends("wordChannel") = 101)
    /\ [][Sends("wordChannel")' # Sends("wordChannel") =>
            Sends("doneChannel") = 0 /\ Sends("doneChannel")' = 0]_vars
    /\ [][Sends("doneChannel")' # Sends("doneChannel") =>
            Sends("wordChannel") = 101 /\ Sends("wordChannel")' = 101]_vars

C18_Witness ==
    /\ emitPc = "select"
    /\ mainPc = "recv"
    /\ Sends("wordChannel") = 100
    /\ ENABLED EmitSendWord
    /\ ~ENABLED EmitRecvDone

\* C19: main does not wait for emit after signalling: once the stop rendezvous
\* has completed main's return is enabled, whether or not emit has executed
\* close(doneChannel) or returned, and main never receives from doneChannel.
C19_MainDoesNotWait ==
    /\ Done("doneChannel", "recv", "main") = 0
    /\ (Done("doneChannel", "send", "main") = 1 /\ mainPc # "exited") =>
         /\ mainPc = "return"
         /\ panic = "none"
         /\ ENABLED MainReturn

C19_Witness ==
    /\ mainPc = "exited"
    /\ emitPc = "close"
    /\ ~doneChannel.closed

\* C20: when emit receives the stop signal it has sent exactly 101 words and
\* its index i is 2; the last word main prints is "the" and the word emit was
\* offering and never delivered is "monkey".
C20_StateAtStop ==
    /\ [][Done("doneChannel", "recv", "emit")' # Done("doneChannel", "recv", "emit") =>
            /\ Done("wordChannel", "send", "emit") = 101
            /\ i = 2 /\ i' = 2
            /\ offered = "monkey"]_vars
    /\ [](Done("doneChannel", "recv", "emit") >= 1 =>
            /\ Done("wordChannel", "send", "emit") = 101
            /\ i = 2
            /\ offered = "monkey"
            /\ Len(output) = 101
            /\ output[Len(output)] = "the"
            /\ word = "the")

C20_Witness ==
    /\ Done("doneChannel", "recv", "emit") = 1
    /\ emitPc = "close"
    /\ i = 2
    /\ offered = "monkey"
    /\ output[101] = "the"

\* C12: in the notes' select program main's final receive from doneChannel
\* completes only by receiving a value that emit sent after the stop signal:
\* once main is past that receive, emit has completed a send on doneChannel
\* and the value main received is that true, from an open channel.
C12_FinalReceiveGetsValue ==
    mainPc \in {"return", "exited"} =>
        /\ Done("doneChannel", "recv", "main") = 1
        /\ Done("doneChannel", "send", "emit") = 1
        /\ doneGot[Len(doneGot)] = [val |-> TRUE, ok |-> TRUE]

C17_IdsUnique ==
    /\ \A n \in 1 .. Len(idGot) : idGot[n] = n
    /\ \A m, n \in 1 .. Len(idGot) : m < n => idGot[m] < idGot[n]

C17_Witness ==
    /\ Len(idGot) >= 3
    /\ idGot[1] = 1 /\ idGot[2] = 2 /\ idGot[3] = 3

\* C16: in the notes' closing-channels example closing goCh acts as a
\* broadcast: no printer gets past its receive or prints before close(goCh)
\* has happened, and once main has executed close(goCh) all ten printers are
\* started and the receive of every printer still waiting is unblocked.
C16_CloseBroadcasts ==
    /\ \A p \in Printers :
         (p \in printed \/ printerPc[p] \in {"print", "done"}) => goCh.closed
    /\ prMainPc \in {"sleep2", "return", "exited"} =>
         \A p \in Printers : printerPc[p] \in {"recv", "print", "done"}
    /\ prMainPc \in {"sleep2", "return"} =>
         \A p \in Printers : printerPc[p] = "recv" => ENABLED PrinterRecv(p)

C16_Witness ==
    /\ goCh.closed
    /\ printed = Printers
    /\ \A p \in Printers : printerPc[p] = "done"

\* C15: in the notes' timer example, once the timer has fired emit eventually
\* takes the timer case, returns and closes wordChannel, after which main's
\* range loop terminates; emit never sends on wordChannel after it is closed.
C15_TimerStopsEmit ==
    /\ (tC.buf # <<>>) ~> (emitPc = "return")
    /\ (emitPc = "return") ~> (wordChannel.closed /\ emitPc = "done")
    /\ wordChannel.closed ~> (mainPc \in {"return", "exited"})
    /\ [](panic = "none")
    /\ [](wordChannel.closed => emitPc = "done")
    /\ [][wordChannel.closed => emitPc' = emitPc /\ word' = word]_vars

C15_Witness ==
    /\ wordChannel.closed
    /\ emitPc = "done"
    /\ mainPc = "exited"
    /\ tLeft = 0
    /\ Len(output) = MaxPrinted

\* C14: in the notes' semaphore example at most 10 workers are inside work()
\* at the same time: running never exceeds 10, and neither does the number of
\* workers between taking a token and putting it back.
C14_AtMostTenRunning ==
    /\ running <= 10
    /\ running = workerAt["sleep"] + workerAt["sub"]
    /\ workerAt["add"] + workerAt["sleep"] + workerAt["sub"] + workerAt["send"] <= 10

C14_Witness ==
    /\ running = 10
    /\ workerAt["recv"] > 0
    /\ sema.buf = <<>>

\* C21: the channels are used in one direction only: every completed send on
\* wordChannel is emit's and every receive on it main's, every completed send
\* on doneChannel is main's and every receive on it emit's; emit and main are
\* the only routines that operate on the channels, and wordChannel is never
\* closed.
C21_OneDirection ==
    /\ Done("wordChannel", "send", "main") = 0
    /\ Done("wordChannel", "recv", "emit") = 0
    /\ Done("doneChannel", "send", "emit") = 0
    /\ Done("doneChannel", "recv", "main") = 0
    /\ Closes("wordChannel") = 0 /\ ~wordChannel.closed
    /\ DOMAIN ops = Chans \X OpKinds \X {"emit", "main"}
    /\ Sends("wordChannel") = Done("wordChannel", "send", "emit")
    /\ Recvs("wordChannel") = Done("wordChannel", "recv", "main")
    /\ Sends("doneChannel") = Done("doneChannel", "send", "main")
    /\ Recvs("doneChannel") = Done("doneChannel", "recv", "emit")

C21_Witness ==
    /\ mainPc = "exited"
    /\ Done("wordChannel", "send", "emit") = 101
    /\ Done("wordChannel", "recv", "main") = 101
    /\ Done("doneChannel", "send", "main") = 1
    /\ Done("doneChannel", "recv", "emit") = 1
    /\ Done("doneChannel", "close", "emit") = 1

\* C22: the routines share no state but the two channels: a word rendezvous
\* leaves doneChannel open and empty and changes, with the steps that follow
\* it, only emit's index and main's counter and output; the stop rendezvous
\* and the close leave emit's index, the word on offer and the printed output
\* unchanged; no step changes a local of emit and a local of main together.
C22_Frame ==
    /\ [][Sends("wordChannel")' # Sends("wordChannel") =>
            /\ doneChannel = NewChan /\ doneChannel' = doneChannel
            /\ doneGot' = doneGot
            /\ wordChannel' = wordChannel
            /\ <<i, offered, mainI, output>>' = <<i, offered, mainI, output>>]_vars
    /\ [](Sends("doneChannel") = 0 => doneChannel = NewChan /\ doneGot = <<>>)
    /\ [][(Sends("doneChannel")' # Sends("doneChannel") \/ doneChannel' # doneChannel) =>
            /\ <<i, offered, word, mainI, output>>' = <<i, offered, word, mainI, output>>
            /\ wordChannel' = wordChannel]_vars
    /\ [][Recvs("doneChannel") >= 1 =>
            <<i, offered, word, mainI, output>>' = <<i, offered, word, mainI, output>>]_vars
    /\ [][<<i, offered>>' # <<i, offered>> =>
            <<mainI, output, word, mainPc>>' = <<mainI, output, word, mainPc>>]_vars
    /\ [][<<mainI, output>>' # <<mainI, output>> =>
            <<i, offered, emitPc>>' = <<i, offered, emitPc>>]_vars

C22_Witness ==
    /\ doneChannel.closed
    /\ Sends("wordChannel") = 101
    /\ i = 2
    /\ Len(output) = 101

====
